---- MODULE Spec2Model ----
(***************************************************************************)
(* Model of src/src/lib.rs: EnsureSchema and its recursive                 *)
(* ensure_with_dry_run.  A schema object is checked with a query, and if   *)
(* the check yields statements, the required objects are ensured first,    *)
(* the statements are run and the check is run once more.                  *)
(*                                                                         *)
(* The recursion is an explicit stack of frames; every database operation  *)
(* is one step.  The database is the record of what its check queries have *)
(* answered since it was last written: a query that was answered keeps its *)
(* answer until a statement is executed, and a query that was not asked    *)
(* since then may answer anything.  A meet query that succeeds may change   *)
(* the answer of every check query; one that fails changes none.           *)
(*                                                                         *)
(* The objects of a tree are built with with_bool_check, whose closure can *)
(* give every result a closure given to new can give: an error, the empty  *)
(* list, or a list of meet queries.                                        *)
(***************************************************************************)
EXTENDS Integers, Sequences, FiniteSets, TLC

\* ---------------------------------------------------------------- bounds
MaxNodes == 3   \* schema objects in a tree
MaxStmts == 2   \* meet queries of one with_bool_check object
MaxRows == 2    \* rows a check query returns

\* ---------------------------------------------------------------- values
Names == <<"A", "B", "C", "D", "E">>

\* A cell of a result row: BIT 1, BIT 0, or something that is no boolean.
RowValues == {"1", "0", "text"}

\* The result sets a check query is tried with: every row of one cell, and for
\* the longer results one per cell value (ensure looks at no row of them).
RowsUpTo(k) ==
  {<<>>} \cup {[i \in 1..len |-> v] : len \in 1..k, v \in RowValues}

\* What database.query gives: an error, or the rows.
QueryResults ==
  {[ok |-> FALSE, rows |-> <<>>]} \cup {[ok |-> TRUE, rows |-> r] : r \in RowsUpTo(MaxRows)}

\* Sql strings: the check query of object n, and its k-th meet query.
CheckSql(n) == [kind |-> "check", of |-> n, k |-> 0]
MeetSql(n, k) == [kind |-> "meet", of |-> n, k |-> k]

\* SchemaState and SchemaStateError, and "still running".
Running == [tag |-> "none", state |-> "", kind |-> "", name |-> "", cause |-> ""]
OkOf(state) == [tag |-> "ok", state |-> state, kind |-> "", name |-> "", cause |-> ""]
CheckError(name, cause) ==
  [tag |-> "err", state |-> "", kind |-> "CheckError", name |-> name, cause |-> cause]
MeetError(name, cause) ==
  [tag |-> "err", state |-> "", kind |-> "MeetError", name |-> name, cause |-> cause]

VARIABLES
  schema,    \* the tree: schema[n] is the EnsureSchema with index n, 1 the root
  dry_run,   \* the flag of the current call
  db,        \* answers of the check queries since the database was last written
  stack,     \* frames of ensure_with_dry_run, the innermost last
  ret,       \* the value a frame has just returned (of the call, once stack is empty)
  trace,     \* what the current call did to the database and the log, in order
  prev,      \* the previous call: whether there was one, its flag and its result
  applied,   \* the meet queries that took effect in the database in the current call
  dirty,     \* somebody else wrote to the database after the last call ended
  clean      \* the database was not written between the previous call and this one

vars == <<schema, dry_run, db, stack, ret, trace, applied, prev, dirty, clean>>

Nodes == DOMAIN schema
Root == 1

\* ---------------------------------------------------------------- EnsureSchema
\* (mutant) the first row is taken instead of the single one.
BoolEnsureFirst(meet_queries, rows) ==
  IF Len(rows) = 0 THEN [ok |-> FALSE, cause |-> "single", sqls |-> <<>>]
  ELSE IF rows[1] \notin {"1", "0"} THEN [ok |-> FALSE, cause |-> "not bool", sqls |-> <<>>]
  ELSE IF rows[1] = "1" THEN [ok |-> TRUE, cause |-> "", sqls |-> <<>>]
  ELSE [ok |-> TRUE, cause |-> "", sqls |-> meet_queries]

\* EnsureSchema::with_bool_check's closure.
BoolEnsure(meet_queries, rows) ==
  IF Len(rows) # 1 THEN [ok |-> FALSE, cause |-> "single", sqls |-> <<>>]
  ELSE IF rows[1] \notin {"1", "0"} THEN [ok |-> FALSE, cause |-> "not bool", sqls |-> <<>>]
  ELSE IF rows[1] = "1" THEN [ok |-> TRUE, cause |-> "", sqls |-> <<>>]
  ELSE [ok |-> TRUE, cause |-> "", sqls |-> meet_queries]

\* EnsureSchema::with_bool_check(name, check_query, meet_queries)
WithBoolCheck(name, check_query, meet_queries) ==
  [name |-> name, check_query |-> check_query, meet_queries |-> meet_queries,
   meet_require |-> <<>>]

\* EnsureSchema::with_meet_require
WithMeetRequire(self, required) ==
  [self EXCEPT !.meet_require = Append(self.meet_require, required)]

\* The trees a caller can build with at most MaxNodes objects: object k > 1 is
\* required by an earlier object, the requirements of one object in index order.
RECURSIVE AddRequired(_, _, _)
AddRequired(tree, parent, k) ==
  IF k > Len(tree) THEN tree
  ELSE AddRequired([tree EXCEPT ![parent[k]] = WithMeetRequire(tree[parent[k]], k)],
                   parent, k + 1)

\* How many meet queries an object is given: none, one, or the most.
StmtCounts == {0, 1, MaxStmts}

Leaves(n, count) ==
  [k \in 1..n |->
     WithBoolCheck(Names[k], CheckSql(k), [s \in 1..count[k] |-> MeetSql(k, s)])]

Trees ==
  UNION {
    { AddRequired(Leaves(n, count), parent, 2) :
        parent \in {p \in [1..n -> 0..n] : p[1] = 0 /\ \A k \in 2..n : p[k] \in 1..(k - 1)},
        count \in [1..n -> StmtCounts] }
    : n \in 1..MaxNodes }

\* ---------------------------------------------------------------- database
Asked(q) == q \in DOMAIN db
Answers(q) == IF Asked(q) THEN {db[q]} ELSE QueryResults
Observe(q, r) == IF Asked(q) THEN db ELSE db @@ (q :> r)
Written == <<>>

\* One entry of the trace: a check query with its answer and what ensure made of
\* it, an executed meet query, or a meet query a dry run reported.
NoAnswer == [ok |-> FALSE, rows |-> <<>>]
Event(op, n, sql, out) ==
  [op |-> op, node |-> n, sql |-> sql, out |-> out, answer |-> NoAnswer, sqls |-> <<>>]

\* ---------------------------------------------------------------- ensure_with_dry_run
Frame(n, dry) ==
  [node |-> n, dry_run |-> dry, pc |-> "check", meet_queries |-> <<>>, i |-> 1, j |-> 1]
Top == stack[Len(stack)]
Pop == SubSeq(stack, 1, Len(stack) - 1)
SetTop(f) == [stack EXCEPT ![Len(stack)] = f]

\* The closure of lines 125-132: the rows of the check query given to ensure.
MeetQueries(n, r) ==
  IF ~r.ok THEN [ok |-> FALSE, cause |-> "query", sqls |-> <<>>]
  ELSE BoolEnsure(schema[n].meet_queries, r.rows)

Outcome(m) == IF ~m.ok THEN "error" ELSE IF m.sqls = <<>> THEN "empty" ELSE "nonempty"

QueryEvent(n, q, r, m) ==
  [op |-> "query", node |-> n, sql |-> q, out |-> Outcome(m), answer |-> r, sqls |-> m.sqls]

\* (mutant) the empty list is not taken as met.
MetNever(meet_queries) == FALSE

\* Line 135: nothing to do.
Met(meet_queries) == meet_queries = <<>>

\* (mutant) the required objects are skipped.
ActionOfSkipping(frame, meet_queries) ==
  [frame EXCEPT !.pc = "require", !.meet_queries = meet_queries,
                !.i = Len(schema[frame.node].meet_require) + 1]

\* Line 139: what an unmet object does next.
ActionOf(frame, meet_queries) ==
  [frame EXCEPT !.pc = "require", !.meet_queries = meet_queries, !.i = 1]

\* (mutant) the required objects are taken last first.
RequiredFrameReversed(frame, i) ==
  Frame(schema[frame.node].meet_require[Len(schema[frame.node].meet_require) + 1 - i],
        frame.dry_run)

\* Lines 140-141: the call for the i-th required object, with the same dry_run.
RequiredFrame(frame, i) == Frame(schema[frame.node].meet_require[i], frame.dry_run)

\* (mutant) the error is wrapped with the name of the requiring object.
PropagateWrapped(err, name) == MeetError(name, err.cause)

\* Line 141: the ? on a required object's error.
Propagate(err, name) == err

\* (mutant) dry_run is not looked at.
ExecutesAlways(dry) == TRUE

\* Line 146: the statements are executed unless dry_run.
Executes(dry) == ~dry

\* (mutant) a dry run reports the change as done.
WouldMeetChanged == OkOf("Changed")

\* Lines 158-163: what a dry run returns for an unmet object.
WouldMeet == OkOf("Ok")

\* (mutant) an error of the second check is reported as one of the first.
VerifiedAsCheck(name, m) ==
  IF ~m.ok THEN CheckError(name, m.cause)
  ELSE IF m.sqls # <<>> THEN MeetError(name, "Verification failed")
  ELSE OkOf("Changed")

\* (mutant) the list of the second check is not looked at.
VerifiedUnchecked(name, m) ==
  IF ~m.ok THEN MeetError(name, m.cause) ELSE OkOf("Changed")

\* Lines 151-157: the second check.
Verified(name, m) ==
  IF ~m.ok THEN MeetError(name, m.cause)
  ELSE IF m.sqls # <<>> THEN MeetError(name, "Verification failed")
  ELSE OkOf("Changed")

\* (mutant) the loop ends after its first meet query.
NextMeetOnce(frame) == [frame EXCEPT !.j = @ + 1, !.pc = "verify"]

\* (mutant) the loop does not move on to the next meet query.
NextMeetAgain(frame) == frame

\* Lines 147-149: the for loop goes on to the next meet query, or ends.
NextMeet(frame) ==
  [frame EXCEPT !.j = @ + 1,
                !.pc = IF frame.j >= Len(frame.meet_queries) THEN "verify" ELSE "meet"]

\* (mutant) the failure of a meet query is ignored.
MeetFailedIgnored(frame, name) ==
  [stack |-> SetTop(NextMeet(frame)), ret |-> Running]

\* Line 148: a meet query that fails.
MeetFailed(frame, name) ==
  [stack |-> Pop, ret |-> MeetError(name, "execute")]

\* (mutant) the meet queries of the failing object are undone.
RolledBack(log, frame) ==
  LET Other(sql) == sql.of # frame.node IN SelectSeq(log, Other)

\* Lines 148 and 165: the error is returned and what was executed stays.
LeftApplied(log, frame) == log

\* The caller ensures the tree, and may ensure it again after a call that
\* succeeded (the tree is built again, and is the same).
Start(dry) ==
  /\ stack = <<>> /\ ret.tag # "err"
  /\ stack' = <<Frame(Root, dry)>>
  /\ dry_run' = dry
  /\ ret' = Running
  /\ trace' = <<>>
  /\ applied' = <<>>
  /\ prev' = [ran |-> ret.tag # "none", dry |-> dry_run, tag |-> ret.tag, state |-> ret.state]
  /\ clean' = ~dirty
  /\ dirty' = FALSE
  /\ UNCHANGED <<schema, db>>

\* Lines 125-139: the first check.
CheckQuery ==
  /\ stack # <<>> /\ Top.pc = "check" /\ ret.tag = "none"
  /\ LET n == Top.node
         q == schema[n].check_query
     IN  \E r \in Answers(q) :
           LET m == MeetQueries(n, r)
           IN  /\ db' = Observe(q, r)
               /\ trace' = Append(trace, QueryEvent(n, q, r, m))
               /\ IF ~m.ok
                    THEN stack' = Pop /\ ret' = CheckError(schema[n].name, m.cause)
                    ELSE IF Met(m.sqls)
                      THEN stack' = Pop /\ ret' = OkOf("Ok")
                      ELSE stack' = SetTop(ActionOf(Top, m.sqls)) /\ ret' = ret
  /\ UNCHANGED <<schema, dry_run, applied, prev, dirty, clean>>

\* Lines 140-141: the next required object is ensured.
Require ==
  /\ stack # <<>> /\ Top.pc = "require" /\ ret.tag = "none"
  /\ Top.i <= Len(schema[Top.node].meet_require)
  /\ stack' = Append(stack, RequiredFrame(Top, Top.i))
  /\ UNCHANGED <<schema, dry_run, db, ret, trace, applied, prev, dirty, clean>>

\* Line 141: the required object returned.
Required ==
  /\ stack # <<>> /\ Top.pc = "require" /\ ret.tag # "none"
  /\ IF ret.tag = "err"
       THEN stack' = Pop /\ ret' = Propagate(ret, schema[Top.node].name)
       ELSE stack' = SetTop([Top EXCEPT !.i = @ + 1]) /\ ret' = Running
  /\ UNCHANGED <<schema, dry_run, db, trace, applied, prev, dirty, clean>>

\* Lines 144-146 and 158-163: all required objects are met.
Meeting ==
  /\ stack # <<>> /\ Top.pc = "require" /\ ret.tag = "none"
  /\ Top.i > Len(schema[Top.node].meet_require)
  /\ IF Executes(Top.dry_run)
       THEN /\ stack' = SetTop([Top EXCEPT !.j = 1,
                                            !.pc = IF Top.meet_queries = <<>>
                                                     THEN "verify" ELSE "meet"])
            /\ UNCHANGED <<ret, trace>>
       ELSE /\ stack' = Pop
            /\ ret' = WouldMeet
            /\ trace' = trace \o [k \in 1..Len(Top.meet_queries) |->
                                    Event("report", Top.node, Top.meet_queries[k], "")]
  /\ UNCHANGED <<schema, dry_run, db, applied, prev, dirty, clean>>

\* Lines 147-149: one meet query.
MeetQuery ==
  /\ stack # <<>> /\ Top.pc = "meet" /\ ret.tag = "none"
  /\ LET sql == Top.meet_queries[Top.j]
     IN  \/ /\ trace' = Append(trace, Event("execute", Top.node, sql, "ok"))
            /\ db' = Written
            /\ applied' = Append(applied, sql)
            /\ stack' = SetTop(NextMeet(Top))
            /\ ret' = ret
         \/ /\ trace' = Append(trace, Event("execute", Top.node, sql, "failed"))
            /\ db' = db
            /\ applied' = LeftApplied(applied, Top)
            /\ stack' = MeetFailed(Top, schema[Top.node].name).stack
            /\ ret' = MeetFailed(Top, schema[Top.node].name).ret
  /\ UNCHANGED <<schema, dry_run, prev, dirty, clean>>

\* Lines 151-157: the check once more.
Verify ==
  /\ stack # <<>> /\ Top.pc = "verify" /\ ret.tag = "none"
  /\ LET n == Top.node
         q == schema[n].check_query
     IN  \E r \in Answers(q) :
           LET m == MeetQueries(n, r)
           IN  /\ db' = Observe(q, r)
               /\ trace' = Append(trace, QueryEvent(n, q, r, m))
               /\ stack' = Pop
               /\ ret' = Verified(schema[n].name, m)
  /\ UNCHANGED <<schema, dry_run, applied, prev, dirty, clean>>

\* Somebody else writes to the database between two calls.
OtherWrite ==
  /\ stack = <<>> /\ ret.tag = "ok" /\ ~dirty
  /\ db' = Written
  /\ dirty' = TRUE
  /\ UNCHANGED <<schema, dry_run, stack, ret, trace, applied, prev, clean>>

Init ==
  /\ schema \in Trees
  /\ dry_run = FALSE
  /\ db = Written
  /\ stack = <<>>
  /\ ret = Running
  /\ trace = <<>>
  /\ applied = <<>>
  /\ prev = [ran |-> FALSE, dry |-> FALSE, tag |-> "none", state |-> ""]
  /\ dirty = FALSE
  /\ clean = TRUE

Next ==
  \/ \E dry \in BOOLEAN : Start(dry)
  \/ CheckQuery
  \/ Require
  \/ Required
  \/ Meeting
  \/ MeetQuery
  \/ Verify
  \/ OtherWrite

Spec == Init /\ [][Next]_vars

\* ---------------------------------------------------------------- properties
Events == 1..Len(trace)
Last == trace[Len(trace)]
Done == stack = <<>> /\ ret.tag # "none"
Range(seq) == {seq[k] : k \in 1..Len(seq)}

\* An object and everything it requires, directly or not.
RECURSIVE Desc(_)
Desc(n) == {n} \cup UNION {Desc(c) : c \in Range(schema[n].meet_require)}

\* The object whose call has just returned ret.
Returner == IF stack = <<>> THEN Root ELSE schema[Top.node].meet_require[Top.i]

OwnEvents(n) == LET Own(e) == e.node = n IN SelectSeq(trace, Own)
SubEvents(n) == LET Sub(e) == e.node \in Desc(n) IN SelectSeq(trace, Sub)
Executions(n, sqls) == [k \in 1..Len(sqls) |-> Event("execute", n, sqls[k], "ok")]
IsFirstCheck(k) == trace[k].op = "query" /\ \A m \in 1..(k - 1) : trace[m].node # trace[k].node
IsSecondCheck(k) == trace[k].op = "query" /\ \E m \in 1..(k - 1) : trace[m].node = trace[k].node
Chain == Len(schema) >= 3 /\ schema[1].meet_require = <<2>> /\ schema[2].meet_require = <<3>>
Fork == Len(schema) >= 3 /\ schema[1].meet_require = <<2, 3>>

\* C1: in a call with dry_run = true no meet query is ever executed, for the
\* root and for every object required, whatever the checks answer.
C1_DryRunExecutesNothing ==
  dry_run => \A k \in Events : trace[k].op # "execute"

C1_Witness ==
  /\ dry_run /\ Done
  /\ Cardinality({k \in Events : trace[k].op = "query" /\ trace[k].out = "nonempty"}) >= 2
  /\ \E k \in Events : trace[k].op = "report"

\* C2: without dry_run, when all meet queries of an object were executed without
\* error and the check run again still yields a non-empty list, the call fails
\* with MeetError naming that object, nothing is returned as Changed, nothing
\* more is done and no meet query of the object is executed twice.
C2_VerificationEnforced ==
  \A k \in Events :
    LET n == trace[k].node
        c == Len(schema[n].meet_queries)
    IN  ( /\ ~dry_run /\ c >= 1 /\ k > c
          /\ SubSeq(trace, k - c, k - 1) = Executions(n, schema[n].meet_queries)
          /\ trace[k].op = "query" /\ trace[k].out = "nonempty" )
        => /\ k = Len(trace)
           /\ ret = MeetError(schema[n].name, "Verification failed")
           /\ \A m \in Events :
                (trace[m].op = "execute" /\ trace[m].node = n) => m \in (k - c)..(k - 1)

C2_Witness ==
  /\ Done /\ Chain
  /\ Len(schema[2].meet_queries) = 2
  /\ ret = MeetError(schema[2].name, "Verification failed")
  /\ Last.out = "nonempty"

\* C3: when the first check of an object yields the empty list, its call returns
\* Ok after that one query: nothing it requires, at any depth, is checked or
\* changed, and none of its meet queries is executed, dry_run or not.
C3_MetShortCircuits ==
  \A k \in Events :
    (IsFirstCheck(k) /\ trace[k].out = "empty")
    => LET n == trace[k].node
       IN  /\ \A m \in Events \ {k} : trace[m].node \notin Desc(n)
           /\ \A f \in Range(stack) : f.node # n
           /\ (k = Len(trace) /\ ret.tag # "none") => (ret = OkOf("Ok") /\ Returner = n)
           /\ (n = Root) => (ret = OkOf("Ok") /\ stack = <<>>)

C3_Witness ==
  /\ Done /\ Chain /\ ~dry_run
  /\ schema[2].meet_queries # <<>>
  /\ Len(trace) = 4
  /\ trace[2].node = 2 /\ trace[2].out = "empty" /\ trace[2].answer.rows = <<"1">>

\* C4: the objects an object requires are done with (check, meet queries,
\* second check) before its first meet query is executed, and each of them was
\* checked by then; so with A requiring B requiring C, C's check comes before
\* B's meet queries and B's check before A's.
C4_RequiredFirst ==
  \A k \in Events :
    trace[k].op = "execute"
    => LET n == trace[k].node
           required == Desc(n) \ {n}
       IN  /\ \A m \in (k + 1)..Len(trace) : trace[m].node \notin required
           /\ \A p \in Range(schema[n].meet_require) :
                \E m \in 1..(k - 1) : trace[m].op = "query" /\ trace[m].node = p

C4_Witness ==
  /\ Done /\ Chain /\ ret = OkOf("Changed")
  /\ \A n \in 1..3 : \E k \in Events : trace[k].op = "execute" /\ trace[k].node = n

\* C5: a call that returns Ok executed no meet query; a call that returns
\* Changed ran without dry_run, its first check was non-empty, each of its meet
\* queries was executed once and in order, and its last check, after the last
\* of them, was empty.  For the root and for every required object.
C5_OutcomeTellsMutation ==
  ret.tag = "ok"
  => LET n == Returner
         own == OwnEvents(n)
         sub == SubEvents(n)
     IN  /\ ret.state = "Ok" => \A k \in 1..Len(sub) : sub[k].op # "execute"
         /\ ret.state = "Changed"
            => /\ ~dry_run
               /\ Len(own) >= 3
               /\ own[1].op = "query" /\ own[1].out = "nonempty"
               /\ SubSeq(own, 2, Len(own) - 1) = Executions(n, own[1].sqls)
               /\ own[Len(own)].op = "query" /\ own[Len(own)].out = "empty"
               /\ Last = own[Len(own)]

C5_Witness ==
  /\ Done /\ Fork /\ ret = OkOf("Changed")
  /\ Len(schema[1].meet_queries) = 2
  /\ \E k \in Events : trace[k].op = "execute" /\ trace[k].node = 3
  /\ \E k \in Events : trace[k].node = 2 /\ trace[k].out = "empty"

\* C6: with dry_run = true nothing returns Changed, and a call whose root is
\* unmet at the start and in which no check fails returns Ok.
C6_DryRunReturnsOk ==
  dry_run
  => /\ ret.state # "Changed"
     /\ ( /\ Done /\ trace[1].out = "nonempty"
          /\ \A k \in Events : trace[k].out # "error" ) => ret = OkOf("Ok")

C6_Witness ==
  /\ dry_run /\ Done /\ ret = OkOf("Ok")
  /\ trace[1].out = "nonempty"
  /\ Len(schema[Root].meet_require) >= 1

\* C7: after a call without dry_run that returned Ok or Changed, and with the
\* database not written since, a second call without dry_run on the same tree
\* executes no meet query and returns Ok.
SecondCall == prev.ran /\ ~prev.dry /\ prev.tag = "ok" /\ clean /\ ~dry_run /\ ret.tag # "err"
C7_Idempotent ==
  (SecondCall /\ (stack # <<>> \/ Done))
  => /\ \A k \in Events : trace[k].op # "execute"
     /\ Done => ret = OkOf("Ok")

C7_Witness ==
  /\ SecondCall /\ Done /\ prev.state = "Changed" /\ ret = OkOf("Ok")
  /\ Len(trace) = 1

\* C8: the error of a required object is returned as it is by every call
\* around it: same kind, same name (the object that failed), same cause.
C8_ErrorNotWrapped ==
  [][ /\ ret.tag = "err" => ret' = ret
      /\ ret'.tag = "err" => ret'.name = schema[trace'[Len(trace')].node].name ]_vars

C8_Witness ==
  /\ Done /\ Chain
  /\ ret.kind = "MeetError" /\ ret.name = schema[3].name
  /\ Len(schema[1].meet_queries) >= 1

\* C9: the first database operation or check function that fails ends the
\* call: the error names the object that issued it and nothing is issued
\* after it.
Failing(e) == e.out \in {"error", "failed"}
C9_FailFast ==
  \A k \in Events :
    Failing(trace[k])
    => /\ k = Len(trace)
       /\ ret.tag = "err"
       /\ ret.name = schema[trace[k].node].name

C9_Witness ==
  /\ Done /\ Fork
  /\ Len(schema[2].meet_queries) = 2 /\ schema[1].meet_queries # <<>>
  /\ Last = Event("execute", 2, MeetSql(2, 1), "failed")
  /\ ret = MeetError(schema[2].name, "execute")

\* C10 as stated: for a with_bool_check object one true row gives the empty
\* list, one false row gives meet_queries as they are, and whenever the check
\* query gives no row or more than one the call fails with CheckError naming
\* the object.
BoolRows(k) ==
  LET e == trace[k]
  IN  /\ e.answer.rows = <<"1">> => (e.out = "empty" /\ e.sqls = <<>>)
      /\ e.answer.rows = <<"0">> => (e.out # "error" /\ e.sqls = schema[e.node].meet_queries)
WrongCount(k) == trace[k].op = "query" /\ trace[k].answer.ok /\ Len(trace[k].answer.rows) # 1

C10_Original ==
  \A k \in Events :
    /\ trace[k].op = "query" => BoolRows(k)
    /\ WrongCount(k)
       => /\ k = Len(trace)
          /\ ret.tag = "err" /\ ret.kind = "CheckError" /\ ret.name = schema[trace[k].node].name

\* C10 as amended: the same, with CheckError when it is the first check of the
\* object that gives no row or more than one, and MeetError naming the object
\* when it is the check run again after the meet queries.
C10_BoolCheck ==
  \A k \in Events :
    /\ trace[k].op = "query" => BoolRows(k)
    /\ WrongCount(k)
       => /\ k = Len(trace)
          /\ ret.tag = "err" /\ ret.name = schema[trace[k].node].name
          /\ IsFirstCheck(k) => ret.kind = "CheckError"
          /\ IsSecondCheck(k) => ret.kind = "MeetError"

C10_Witness ==
  /\ Done /\ Len(trace) >= 2
  /\ WrongCount(Len(trace)) /\ IsFirstCheck(Len(trace))
  /\ Len(Last.answer.rows) = 2
  /\ trace[1].answer.rows = <<"0">> /\ trace[1].sqls = <<MeetSql(1, 1), MeetSql(1, 2)>>
  /\ ret.kind = "CheckError"

QueriesOf(n) == {k \in Events : trace[k].op = "query" /\ trace[k].node = n}
ExecutesOf(n) == {k \in Events : trace[k].op = "execute" /\ trace[k].node = n}

\* C11: for a root that requires nothing, whose first check gives k meet
\* queries and whose check is met after they ran, the call returns Changed
\* having issued the check, the k meet queries in order, and the check again:
\* two queries and k executions.
C11_LeafOperations ==
  ( /\ Done /\ ~dry_run /\ schema[Root].meet_require = <<>>
    /\ trace[1].out = "nonempty"
    /\ \A k \in Events : trace[k].op = "execute" => trace[k].out = "ok"
    /\ Last.op = "query" /\ Last.out = "empty" )
  => LET sqls == trace[1].sqls
     IN  /\ ret = OkOf("Changed")
         /\ Len(trace) = Len(sqls) + 2
         /\ trace[1].op = "query" /\ trace[1].sql = schema[Root].check_query
         /\ SubSeq(trace, 2, Len(sqls) + 1) = Executions(Root, sqls)
         /\ Last.sql = schema[Root].check_query
         /\ Cardinality(QueriesOf(Root)) = 2
         /\ Cardinality(ExecutesOf(Root)) = Len(sqls)

C11_Witness ==
  /\ Done /\ Len(schema) = 1 /\ ret = OkOf("Changed")
  /\ Len(trace) = 4 /\ Last.answer.rows = <<"1">>

\* C12: the objects an unmet object requires are ensured one after another in
\* the order with_meet_require added them, with the dry_run of the object that
\* requires them, and after that object's own first check.
C12_RequiredInOrder ==
  /\ \A f \in Range(stack) : f.dry_run = dry_run
  /\ \A n \in Nodes :
       LET req == schema[n].meet_require
           at == [i \in 1..Len(req) |-> {k \in Events : trace[k].node \in Desc(req[i])}]
       IN  /\ \A i \in 1..Len(req) : \A i2 \in (i + 1)..Len(req) :
                \A a \in at[i] : \A b \in at[i2] : a < b
           /\ \A i \in 1..Len(req) : \A a \in at[i] :
                \E q \in 1..(a - 1) : trace[q].op = "query" /\ trace[q].node = n

C12_Witness ==
  /\ Done /\ Fork /\ ret = OkOf("Changed")
  /\ ExecutesOf(2) # {} /\ ExecutesOf(3) # {}

\* C13: when the j-th meet query of an object fails, the call returns MeetError
\* naming the object; the meet queries 1..j-1 of the object and those applied
\* for objects ensured before it stay applied, no later meet query is executed
\* and the object is not checked again.
AppliedInTrace ==
  LET Ok(e) == e.op = "execute" /\ e.out = "ok"
      ok == SelectSeq(trace, Ok)
  IN  [i \in 1..Len(ok) |-> ok[i].sql]

C13_NoRollback ==
  \A k \in Events :
    (trace[k].op = "execute" /\ trace[k].out = "failed")
    => LET n == trace[k].node
           j == trace[k].sql.k
       IN  /\ k = Len(trace)
           /\ ret = MeetError(schema[n].name, "execute")
           /\ applied = AppliedInTrace
           /\ k > j
           /\ \A i \in 1..(j - 1) :
                trace[k - j + i] = Event("execute", n, schema[n].meet_queries[i], "ok")
           /\ Cardinality(QueriesOf(n)) = 1

C13_Witness ==
  /\ Done /\ Chain
  /\ Last = Event("execute", 1, MeetSql(1, 2), "failed")
  /\ applied = <<MeetSql(2, 1), MeetSql(1, 1)>>
  /\ ret = MeetError(schema[1].name, "execute")

\* Every database operation returns, so a call that can take a step takes one.
Step == CheckQuery \/ Require \/ Required \/ Meeting \/ MeetQuery \/ Verify
FairSpec == Spec /\ WF_vars(Step)

\* C14: in one call the check of an object is run at most twice, at most once
\* with dry_run, and each of its meet queries at most once; and the call
\* ends, with a state or an error.
NoRetry ==
  \A n \in Nodes :
    /\ Cardinality(QueriesOf(n)) <= (IF dry_run THEN 1 ELSE 2)
    /\ \A a \in ExecutesOf(n) : \A b \in ExecutesOf(n) : trace[a].sql = trace[b].sql => a = b
    /\ Cardinality(ExecutesOf(n)) <= Len(schema[n].meet_queries)

C14_NoRetryLoop == []NoRetry /\ (stack # <<>> ~> Done)

C14_Witness ==
  /\ Done /\ ~dry_run /\ Chain /\ ret = OkOf("Changed")
  /\ \A n \in 1..3 : Cardinality(QueriesOf(n)) = 2
  /\ Cardinality(ExecutesOf(1)) = 2

\* C15: a failure of the first check (query or closure) is CheckError naming the
\* object; a failing meet query, a failure of the second check, and a second
\* check that is not empty are MeetError naming the object.  So with CheckError
\* for an object none of its meet queries was executed and nothing it requires
\* was checked.
C15_ErrorPhase ==
  ret.tag = "err"
  => LET k == Len(trace)
         e == Last
         n == e.node
         m == MeetQueries(n, e.answer)
         name == schema[n].name
     IN  /\ e.op \in {"query", "execute"}
         /\ IsFirstCheck(k) => (e.out = "error" /\ ret = CheckError(name, m.cause))
         /\ e.op = "execute" => (e.out = "failed" /\ ret = MeetError(name, "execute"))
         /\ IsSecondCheck(k)
            => /\ e.out # "empty"
               /\ ret = MeetError(name, IF e.out = "error" THEN m.cause
                                        ELSE "Verification failed")
         /\ ret.kind = "CheckError"
            => /\ ExecutesOf(n) = {}
               /\ \A j \in Events : trace[j].node \notin Desc(n) \ {n}

C15_Witness ==
  /\ Done /\ Chain /\ IsSecondCheck(Len(trace))
  /\ Last.node = 2 /\ Last.answer.ok /\ Last.answer.rows = <<>>
  /\ ret = MeetError(schema[2].name, "single")

\* C16: when the first meet query of an object is executed, the latest check of
\* each object it requires gave the empty list.
LatestBefore(positions, k) ==
  CHOOSE m \in positions : m < k /\ \A x \in positions : x < k => x <= m

C16_RequiredMet ==
  \A k \in Events :
    trace[k].op = "execute"
    => \A p \in Range(schema[trace[k].node].meet_require) :
         /\ \E m \in QueriesOf(p) : m < k
         /\ trace[LatestBefore(QueriesOf(p), k)].out = "empty"

C16_Witness ==
  /\ Done /\ Fork /\ ret = OkOf("Changed")
  /\ Cardinality(QueriesOf(2)) = 1 /\ Cardinality(QueriesOf(3)) = 2
  /\ Cardinality(ExecutesOf(1)) = 2

\* C17: in a dry run of an unmet object the objects it requires are checked, in
\* their order, before its meet queries are reported; a check that fails ends
\* the dry run with the CheckError of its object; no object is checked twice.
C17_DryRunRequired ==
  dry_run
  => /\ \A n \in Nodes : Cardinality(QueriesOf(n)) <= 1
     /\ \A k \in Events :
          trace[k].op = "report"
          => LET req == schema[trace[k].node].meet_require
             IN  /\ \A i \in 1..Len(req) : \E m \in QueriesOf(req[i]) : m < k
                 /\ \A i \in 1..Len(req) : \A i2 \in (i + 1)..Len(req) :
                      \A a \in QueriesOf(req[i]) : \A b \in QueriesOf(req[i2]) : a < b
     /\ \A k \in Events :
          (trace[k].op = "query" /\ trace[k].out = "error")
          => /\ k = Len(trace)
             /\ ret = CheckError(schema[trace[k].node].name,
                                 MeetQueries(trace[k].node, trace[k].answer).cause)

C17_Witness ==
  /\ dry_run /\ Done /\ Fork
  /\ Len(trace) = 3 /\ Last.node = 3 /\ ~Last.answer.ok
  /\ ret = CheckError(schema[3].name, "query")

====
